---- MODULE Spec2Model ----
(***************************************************************************)
(* Model of app.py (Select Game): the candidate generator, the platform    *)
(* matcher, the RAWG fact-resolution loop, the two selection calls with    *)
(* their single repair round-trip, and the recommendation flow that ties   *)
(* them to the Streamlit session state.                                    *)
(*                                                                         *)
(* Text is modelled as a sequence of one-character strings so that         *)
(* str.strip, str.lower, " | ".join and the substring test `in` are        *)
(* computed, not assumed.  Dictionary keys that the code only looks up     *)
(* (platform labels, JSON keys) are plain strings.  The label written      *)
(* "Mobile" below is the Korean label of app.py line 246.                  *)
(***************************************************************************)
EXTENDS Integers, Sequences, FiniteSets, TLC

(***************************************************************************)
(* Bounds of the model                                                     *)
(***************************************************************************)
\* largest required candidate count n tried on openai_get_candidates alone
MaxN == 3
\* longest user platform selection tried on platform_filter_pass alone
MaxUserPlats == 2
\* longest catalog platform list tried on platform_filter_pass alone
MaxGamePlats == 2

(***************************************************************************)
(* Text helpers                                                            *)
(***************************************************************************)
UpperToLower ==
  [c \in {"A","B","C","D","F","H","I","L","N","O","P","S","X"} |->
     CASE c = "A" -> "a" [] c = "B" -> "b" [] c = "C" -> "c" [] c = "D" -> "d"
       [] c = "F" -> "f" [] c = "H" -> "h" [] c = "I" -> "i" [] c = "L" -> "l"
       [] c = "N" -> "n" [] c = "O" -> "o" [] c = "P" -> "p" [] c = "S" -> "s"
       [] c = "X" -> "x"]

\* str.lower() of one character
LowerChar(c) == IF c \in DOMAIN UpperToLower THEN UpperToLower[c] ELSE c

\* str.lower()
Lower(s) == [i \in 1..Len(s) |-> LowerChar(s[i])]

IsSpace(c) == c = " "

RECURSIVE LStrip(_)
LStrip(s) == IF s # <<>> /\ IsSpace(Head(s)) THEN LStrip(Tail(s)) ELSE s

RECURSIVE RStrip(_)
RStrip(s) ==
  IF s # <<>> /\ IsSpace(s[Len(s)]) THEN RStrip(SubSeq(s, 1, Len(s) - 1)) ELSE s

\* str.strip()
Strip(s) == RStrip(LStrip(s))

\* needle in haystack   (Python substring test)
Contains(haystack, needle) ==
  \E i \in 1..(Len(haystack) - Len(needle) + 1) :
     SubSeq(haystack, i, i + Len(needle) - 1) = needle

\* sep.join(items)
RECURSIVE Join(_, _)
Join(sep, items) ==
  IF items = <<>> THEN <<>>
  ELSE IF Len(items) = 1 THEN items[1]
  ELSE items[1] \o sep \o Join(sep, Tail(items))

\* all sequences over S of length lo..hi
SeqsUpTo(S, lo, hi) == UNION {[1..k -> S] : k \in lo..hi}

Range(f) == {f[i] : i \in DOMAIN f}

(***************************************************************************)
(* Catalog platform names and mapped tokens                                *)
(***************************************************************************)
T_PC == <<"P","C">>
T_PlayStation == <<"P","l","a","y","S","t","a","t","i","o","n">>
T_Xbox == <<"X","b","o","x">>
T_NintendoSwitch == <<"N","i","n","t","e","n","d","o"," ","S","w","i","t","c","h">>
T_Nintendo == <<"N","i","n","t","e","n","d","o">>
T_Android == <<"A","n","d","r","o","i","d">>
T_iOS == <<"i","O","S">>

P_PlayStation4 == T_PlayStation \o <<" ","4">>
P_XboxOne == T_Xbox \o <<" ","O","n","e">>
P_Nintendo3DS == T_Nintendo \o <<" ","3","D","S">>
P_android == Lower(T_Android)
P_Linux == <<"L","i","n","u","x">>

\* mapping = {...}; return mapping.get(platform_choice, [])
map_platform_choice_to_rawg_tokens(platform_choice) ==
  CASE platform_choice = "PC" -> <<T_PC>>
    [] platform_choice = "PS" -> <<T_PlayStation>>
    [] platform_choice = "Xbox" -> <<T_Xbox>>
    [] platform_choice = "Switch" -> <<T_NintendoSwitch, T_Nintendo>>
    [] platform_choice = "Mobile" -> <<T_Android, T_iOS>>
    [] OTHER -> <<>>

\* tokens = []; for up in user_platforms: tokens.extend(map(up))
RECURSIVE PlatformTokens(_)
PlatformTokens(user_platforms) ==
  IF user_platforms = <<>> THEN <<>>
  ELSE map_platform_choice_to_rawg_tokens(Head(user_platforms))
         \o PlatformTokens(Tail(user_platforms))

\* a plausible slip: the comparison forgets .lower() on the catalog side
platform_filter_pass_nolower(user_platforms, game_plats) ==
  IF user_platforms = <<>> THEN TRUE
  ELSE LET tokens == PlatformTokens(user_platforms)
           gp == Join(<<" ","|"," ">>, game_plats)
       IN \E k \in 1..Len(tokens) : Contains(gp, Lower(tokens[k]))

platform_filter_pass(user_platforms, game_plats) ==
  IF user_platforms = <<>> THEN TRUE
  ELSE LET tokens == PlatformTokens(user_platforms)
           gp == Lower(Join(<<" ","|"," ">>, game_plats))
       IN \E k \in 1..Len(tokens) : Contains(gp, Lower(tokens[k]))

(***************************************************************************)
(* Candidate generator                                                     *)
(***************************************************************************)
\* safe_json_loads: the reply text is plain JSON, JSON inside a code fence,
\* JSON surrounded by prose (recovered by the first "{" .. last "}" slice),
\* or text that json.loads rejects.  The result is the parsed value or a
\* raised exception.
safe_json_loads(resp) ==
  IF resp.text \in {"json", "fenced", "prose"}
  THEN [raised |-> FALSE, obj |-> resp.obj]
  ELSE [raised |-> TRUE, obj |-> resp.obj]

\* cands = [str(x).strip() for x in cands if str(x).strip()]
RECURSIVE StripNonBlank(_)
StripNonBlank(items) ==
  IF items = <<>> THEN <<>>
  ELSE LET t == Strip(Head(items))
       IN (IF t # <<>> THEN <<t>> ELSE <<>>) \o StripNonBlank(Tail(items))

\* seen = set(); uniq = []; for t in cands: key = t.lower(); ...
RECURSIVE UniqCI(_, _)
UniqCI(items, seen) ==
  IF items = <<>> THEN <<>>
  ELSE LET key == Lower(Head(items))
       IN IF key \in seen THEN UniqCI(Tail(items), seen)
          ELSE <<Head(items)>> \o UniqCI(Tail(items), seen \cup {key})

Take(s, n) == SubSeq(s, 1, IF Len(s) < n THEN Len(s) ELSE n)

\* resp is the model's reply; the result is [raised, titles]
openai_get_candidates(resp, n) ==
  LET parsed == safe_json_loads(resp)
      obj == parsed.obj
  IN IF parsed.raised THEN [raised |-> TRUE, titles |-> <<>>]
     ELSE IF obj.shape = "nonobject" THEN [raised |-> TRUE, titles |-> <<>>]
     ELSE LET cands == IF obj.shape = "nokey" THEN <<>> ELSE obj.items
          IN IF obj.shape = "nonlist" \/ Len(cands) # n
             THEN [raised |-> TRUE, titles |-> <<>>]
             ELSE [raised |-> FALSE,
                   titles |-> Take(UniqCI(StripNonBlank(cands), {}), n)]

(***************************************************************************)
(* Program constants, scaled down for model checking.  The source sets     *)
(* CANDIDATE_COUNT = 18 and RAWG_MATCH_LIMIT = 18 (app.py lines 25-26) and *)
(* FALLBACK_MAX_RECS = 8 (line 29); the code reads them as parameters      *)
(* only, so the model keeps the names and runs with smaller values.        *)
(***************************************************************************)
CANDIDATE_COUNT == 3
RAWG_MATCH_LIMIT == 2
FALLBACK_MAX_RECS == 2
\* longest "selected" array in a grounded selection reply
MaxSelected == 1
MaxMessages == 7
\* catalog identifiers 1..MaxCatalogId exist
MaxCatalogId == 2

(***************************************************************************)
(* JSON scalars: kind "int" is the integer n, "float" is n + 0.5,          *)
(* "numstr" is the string of the decimal digits of n, "text" is any other  *)
(* string, "null" is null.                                                 *)
(***************************************************************************)
JVal(kind, n) == [kind |-> kind, n |-> n]
JNull == JVal("null", 0)

\* int(v): truncates a float, parses a numeric string, raises otherwise
PyInt(v) ==
  IF v.kind \in {"int", "float", "numstr"}
  THEN [raised |-> FALSE, n |-> v.n]
  ELSE [raised |-> TRUE, n |-> 0]

(***************************************************************************)
(* RAWG catalog                                                            *)
(***************************************************************************)
CatalogIds == 1..MaxCatalogId

Uncached == [kind |-> "uncached", id |-> 0, name |-> <<>>]

\* return value of rawg_search_top: None, a top hit without a usable id,
\* or a top hit {id, name}
SearchAnswers ==
  {[kind |-> "none", id |-> 0, name |-> <<>>],
   [kind |-> "noid", id |-> 0, name |-> <<"Z">>]}
  \cup {[kind |-> "hit", id |-> g, name |-> IF g = 1 THEN <<"G","1">> ELSE <<>>]
          : g \in CatalogIds}

DetailPlatformLists ==
  {<<T_PC>>, <<T_NintendoSwitch, <<>>, T_NintendoSwitch, T_PC>>, <<P_Nintendo3DS>>}

\* return value of rawg_game_detail for game_id
DetailAnswers(game_id) ==
  {[kind |-> "detail",
    name |-> IF pl = <<T_PC>> THEN <<>> ELSE <<"D", "0">>,
    released |-> IF pl = <<T_PC>> THEN JNull ELSE JVal("text", 2020),
    genres |-> <<<<"R","P","G">>, <<>>>>,
    platforms |-> pl,
    metacritic |-> JVal("int", 90),
    rating |-> JVal("float", 4),
    background_image |-> JVal("text", game_id)] : pl \in DetailPlatformLists}

NoDetail ==
  [kind |-> "uncached", name |-> <<>>, released |-> JNull, genres |-> <<>>,
   platforms |-> <<>>, metacritic |-> JNull, rating |-> JNull,
   background_image |-> JNull]

RECURSIVE NonEmpty(_)
NonEmpty(items) ==
  IF items = <<>> THEN <<>>
  ELSE (IF Head(items) # <<>> THEN <<Head(items)>> ELSE <<>>) \o NonEmpty(Tail(items))

RECURSIVE Uniq(_, _)
Uniq(items, seen) ==
  IF items = <<>> THEN <<>>
  ELSE IF Head(items) \in seen THEN Uniq(Tail(items), seen)
  ELSE <<Head(items)>> \o Uniq(Tail(items), seen \cup {Head(items)})

\* names of detail["platforms"], entries without a name dropped, then
\* de-duplicated in order
game_platforms(detail) == Uniq(NonEmpty(detail.platforms), {})

game_genres(detail) == NonEmpty(detail.genres)

\* the dict appended to factual (lines 719-728)
MakeFact(gid, title, top, detail) ==
  [id |-> JVal("int", gid),
   name |-> IF detail.name # <<>> THEN detail.name
            ELSE IF top.name # <<>> THEN top.name ELSE title,
   released |-> detail.released,
   genres |-> game_genres(detail),
   platforms |-> game_platforms(detail),
   metacritic |-> detail.metacritic,
   rating |-> detail.rating,
   background_image |-> detail.background_image]

\* if not top or not top.get("id")
NoHit(top) == top.kind # "hit" \/ top.id = 0

\* if gid in seen_ids
AlreadySeen(gid, seen_ids) == gid \in seen_ids

\* a plausible slip: the identifier is never remembered
AddSeen_forget(seen_ids, gid) == seen_ids

\* seen_ids.add(gid)
AddSeen(seen_ids, gid) == seen_ids \cup {gid}

\* a plausible slip: the set of seen identifiers outlives the run
FreshSeen_stale(old) == old

\* seen_ids = set(): every run starts with no identifier seen
FreshSeen(old) == {}

\* a plausible slip: the loop has no early exit
LimitReached_never(factual) == FALSE

\* if len(factual) >= RAWG_MATCH_LIMIT: break
LimitReached(factual) == Len(factual) >= RAWG_MATCH_LIMIT

\* a plausible slip: the check is inverted
EmptyFactual_never(factual) == FALSE

\* if not factual: raise ValueError(...)
EmptyFactual(factual) == factual = <<>>

(***************************************************************************)
(* Selection calls                                                         *)
(***************************************************************************)
\* a plausible slip: the repair call is made whatever the first reply was
NeedsRepair_always(parsed) == TRUE

\* try: obj = safe_json_loads(text)  except Exception: <repair call>
NeedsRepair(parsed) == parsed.raised

\* sel = obj.get("selected", []); if not isinstance(sel, list): raise
\* (obj.get itself raises when the reply is JSON but not an object)
SelectedOf(obj) == IF obj.selected = "missing" THEN <<>> ELSE obj.items

ShapeRaises(obj) == obj.shape = "nonobject" \/ obj.selected = "nonlist"

\* a plausible slip: the safety cut is dropped
TruncateSelected_keep(sel, max_recs) == sel

\* obj["selected"] = sel[:max_recs]
TruncateSelected(sel, max_recs) == Take(sel, max_recs)

\* an element of "selected" that is not a JSON object has no .get
IsDict(s) == "_scalar" \notin DOMAIN s

\* try: gid = int(s.get("id"))  except Exception: continue
EntryGid(s) ==
  IF ~IsDict(s) \/ "id" \notin DOMAIN s THEN [raised |-> TRUE, n |-> 0]
  ELSE PyInt(s.id)

FactIds(factual) == {factual[k].id.n : k \in DOMAIN factual}

\* fact_map = {g["id"]: g for g in factual}   (a later entry would win)
FactOf(factual, gid) ==
  factual[CHOOSE k \in DOMAIN factual :
            /\ factual[k].id.n = gid
            /\ \A j \in DOMAIN factual : factual[j].id.n = gid => j <= k]

\* merged = {**fact_map[gid], **s}
MergeDict(fact, s) == s @@ fact

\* for s in picked_obj.get("selected", []): ...  (lines 751-758)
RECURSIVE MergeSelections(_, _)
MergeSelections(factual, selected) ==
  IF selected = <<>> THEN <<>>
  ELSE LET s == Head(selected)
           g == EntryGid(s)
       IN (IF ~g.raised /\ g.n \in FactIds(factual)
           THEN <<MergeDict(FactOf(factual, g.n), s)>> ELSE <<>>)
          \o MergeSelections(factual, Tail(selected))

\* bool(rawg_key.strip())
RawgEnabled(key) == Strip(key) # <<>>

\* a plausible slip: the flag is assigned before the OpenAI key is tested
RawgModeAfterClick_early(openai_key, key, mode) == RawgEnabled(key)

\* lines 678-686: without an OpenAI key the flag is left alone, otherwise
\* st.session_state.rawg_mode = rawg_enabled
RawgModeAfterClick(openai_key, key, mode) ==
  IF ~openai_key THEN mode ELSE RawgEnabled(key)

NoneRecs == [isNone |-> TRUE, selected |-> <<>>, summary |-> "", note |-> ""]

\* a plausible slip: the handler forgets to clear the stored result
RecsAfterFailure_keep(recs) == recs

\* except Exception as e: st.session_state.recommendations = None
RecsAfterFailure(recs) == NoneRecs

(***************************************************************************)
(* State                                                                   *)
(***************************************************************************)
VARIABLES
  pfUser, pfPlats, pfResult,   \* one call of platform_filter_pass
  cgN, cgResp, cgOut,          \* one call of openai_get_candidates
  recommendations,             \* st.session_state.recommendations
  rawg_mode,                   \* st.session_state.rawg_mode
  recsMode,                    \* history: the mode of the run that stored recommendations
  searchCache, detailCache,    \* st.cache_data of rawg_search_top / rawg_game_detail
  pc,                          \* position of the recommendation flow
  rawg_key, platforms,         \* sidebar inputs read by this run
  candidates, idx,             \* for title in candidates
  factual, seen_ids,           \* locals of the fact-resolution loop
  hits,                        \* history: catalog id found for each candidate tried
  answers,                     \* history: catalog answers this run's loop received
  prevLoop,                    \* history: one earlier completed loop of the session
  calls,                       \* history: what this run has called, in order
  selParse,                    \* history: did each selection reply of this run parse
  lastSelected,                \* history: "selected" array of the accepted reply
  outcome, errCount,           \* history: how this run ended, st.error calls
  messages,                    \* st.session_state.messages
  chatPending                  \* the chat handler is waiting for openai_chat

pfVars == <<pfUser, pfPlats, pfResult>>
cgVars == <<cgN, cgResp, cgOut>>
sessionVars == <<recommendations, rawg_mode, recsMode>>
cacheVars == <<searchCache, detailCache>>
loopVars == <<rawg_key, platforms, candidates, idx, factual, seen_ids, hits,
              answers, prevLoop>>
histVars == <<calls, selParse, lastSelected, outcome, errCount>>
flowVars == <<sessionVars, cacheVars, pc, loopVars, histVars>>

chatVars == <<messages, chatPending>>

vars == <<pfVars, cgVars, flowVars, chatVars>>

PlatformLabels == {"PC", "PS", "Xbox", "Switch", "Mobile", "VR"}
CatalogPlatformNames ==
  {T_PC, P_PlayStation4, P_XboxOne, T_NintendoSwitch, P_Nintendo3DS,
   T_Android, P_android, T_iOS, P_Linux}

RawTitles == {<<>>, <<" ">>, <<"A">>, <<"a">>, <<" ","A">>, <<"B">>}


CandObjects ==
  {[shape |-> sh, items |-> <<>>] : sh \in {"nonobject", "nokey", "nonlist"}}
  \cup {[shape |-> "list", items |-> it] : it \in SeqsUpTo(RawTitles, 0, MaxN + 1)}

\* titles the model proposes in a recommendation run
FlowTitles == {<<"A">>, <<" ">>, <<"B">>, <<"C">>}

\* the queries rawg_search_top can see: stripped, non-blank titles
FlowQueries == {Strip(t) : t \in FlowTitles} \ {<<>>}

\* sidebar inputs of a run
RawgKeys == {<<>>, <<" ">>, <<"k">>}
FlowPlatforms == {<<>>, <<"Switch">>}

FlowCandObjects ==
  {[shape |-> sh, items |-> <<>>] : sh \in {"nonobject", "nokey", "nonlist"}}
  \cup {[shape |-> "list", items |-> it]
          : it \in SeqsUpTo(FlowTitles, CANDIDATE_COUNT - 1, CANDIDATE_COUNT)}

W == JVal("text", 7)

\* elements of "selected" in a grounded selection reply
GroundedEntries ==
  {[id |-> JVal("int", g), why_recommended |-> W] : g \in {1, MaxCatalogId + 1}}
  \cup {[id |-> JVal(k, 1), why_recommended |-> W] : k \in {"numstr", "float", "text"}}
  \cup {[why_recommended |-> W], [_scalar |-> W],
        [id |-> JVal("int", 1), name |-> <<"F","a","k","e">>]}

\* elements of "selected" in a fallback reply
FallbackEntries ==
  {[name |-> <<"A">>, why_recommended |-> W], [name |-> <<"B">>, platforms |-> T_PC]}

SelObjects(entries, maxLen) ==
  {[shape |-> "nonobject", selected |-> "missing", items |-> <<>>],
   [shape |-> "object", selected |-> "missing", items |-> <<>>],
   [shape |-> "object", selected |-> "nonlist", items |-> <<>>]}
  \cup {[shape |-> "object", selected |-> "list", items |-> it]
          : it \in SeqsUpTo(entries, 0, maxLen)}

\* replies of the model: text that parses to one of objs, or text that does not
Replies(objs) ==
  [text : {"json", "fenced"}, obj : objs]
  \cup {[text |-> "garbage", obj |-> o] : o \in {CHOOSE o \in objs : TRUE}}

GroundedReplies == Replies(SelObjects(GroundedEntries, MaxSelected))
FallbackReplies == Replies(SelObjects(FallbackEntries, FALLBACK_MAX_RECS + 1))
CandidateReplies == Replies(FlowCandObjects)

pfIdle == pfUser = <<>> /\ pfPlats = <<>> /\ pfResult = "none"
cgIdle == cgN = 0 /\ cgResp = [text |-> "json", obj |-> [shape |-> "nokey", items |-> <<>>]]
          /\ cgOut = [status |-> "none", titles |-> <<>>]

\* no completed loop remembered
NoLoop == [done |-> FALSE, candidates |-> <<>>, platforms |-> <<>>,
           answers |-> <<>>, factual |-> <<>>]

\* the fact-resolution loop of the current run has run to its end
LoopCompleted ==
  /\ RawgEnabled(rawg_key)
  /\ \/ pc \in {"select", "repair"}
     \/ outcome \in {"ok", "fail_select", "fail_nomatch"}

\* what the current run's loop was given and what it built
ThisLoop == [done |-> TRUE, candidates |-> candidates, platforms |-> platforms,
             answers |-> answers, factual |-> factual]

\* the message the transcript starts with (lines 665-667)
InitialMessage == [role |-> "assistant", content |-> <<"h","e","l","l","o">>]

\* the session state of lines 664-671, no run started
sessionFresh ==
  /\ messages = <<InitialMessage>> /\ chatPending = FALSE
  /\ recommendations = NoneRecs
  /\ rawg_mode = FALSE
  /\ recsMode = "none"
  /\ pc = "idle"
  /\ rawg_key = <<>> /\ platforms = <<>> /\ candidates = <<>> /\ idx = 0
  /\ factual = <<>> /\ seen_ids = {} /\ hits = <<>>
  /\ answers = <<>> /\ prevLoop = NoLoop
  /\ calls = <<>> /\ selParse = <<>> /\ lastSelected = <<>>
  /\ outcome = "none" /\ errCount = 0

cachesCold ==
  /\ searchCache = [t \in FlowQueries |-> Uncached]
  /\ detailCache = [g \in CatalogIds |-> NoDetail]

flowIdle == sessionFresh /\ cachesCold

(***************************************************************************)
(* Specification of the platform matcher alone                             *)
(***************************************************************************)
InitPF ==
  /\ pfUser \in SeqsUpTo(PlatformLabels, 0, MaxUserPlats)
  /\ pfPlats \in SeqsUpTo(CatalogPlatformNames, 0, MaxGamePlats)
  /\ pfResult = "none"
  /\ cgIdle /\ flowIdle

CallPlatformFilter ==
  /\ pfResult = "none"
  /\ pfResult' = IF platform_filter_pass(pfUser, pfPlats) THEN "pass" ELSE "fail"
  /\ UNCHANGED <<pfUser, pfPlats, cgVars, flowVars, chatVars>>

NextPF == CallPlatformFilter

SpecPF == InitPF /\ [][NextPF]_vars

(***************************************************************************)
(* Specification of the candidate generator alone                          *)
(***************************************************************************)
InitCand ==
  /\ cgN \in 1..MaxN
  /\ cgResp \in [text : {"json", "garbage"}, obj : CandObjects]
  /\ cgOut = [status |-> "none", titles |-> <<>>]
  /\ pfIdle /\ flowIdle

CallGetCandidates ==
  /\ cgOut.status = "none"
  /\ LET r == openai_get_candidates(cgResp, cgN)
     IN cgOut' = [status |-> IF r.raised THEN "raised" ELSE "returned",
                  titles |-> r.titles]
  /\ UNCHANGED <<cgN, cgResp, pfVars, flowVars, chatVars>>

NextCand == CallGetCandidates

SpecCand == InitCand /\ [][NextCand]_vars

(***************************************************************************)
(* The recommendation flow (lines 677-785).  One action per stretch of the *)
(* handler between two external replies; the reply is the action's input.  *)
(***************************************************************************)
\* except Exception as e: recommendations = None; st.error(...)
FailWith(kind) ==
  /\ recommendations' = RecsAfterFailure(recommendations)
  /\ recsMode' = IF recommendations' = recommendations THEN recsMode ELSE "none"
  /\ errCount' = errCount + 1
  /\ outcome' = kind
  /\ pc' = "idle"

Quiet == UNCHANGED <<recommendations, recsMode, errCount, outcome>>

\* if get_recs: ... up to the first model call.  With remember set, the
\* history may keep the loop of the run that this click replaces.
Click(remember) ==
  /\ pc = "idle"
  /\ \E openai_key \in BOOLEAN, key \in RawgKeys, plats \in FlowPlatforms :
       /\ rawg_key' = key /\ platforms' = plats
       /\ candidates' = <<>> /\ idx' = 0 /\ factual' = <<>>
       /\ seen_ids' = FreshSeen(seen_ids)
       /\ answers' = <<>>
       /\ prevLoop' \in (IF remember /\ LoopCompleted THEN {ThisLoop} ELSE {})
                        \cup {prevLoop}
       /\ hits' = <<>> /\ calls' = <<>> /\ selParse' = <<>> /\ lastSelected' = <<>>
       /\ IF ~openai_key
          THEN /\ errCount' = 1 /\ outcome' = "nokey" /\ pc' = "idle"
          ELSE /\ errCount' = 0 /\ outcome' = "running"
               /\ pc' = IF RawgEnabled(key) THEN "candidates" ELSE "fallback"
       /\ rawg_mode' = RawgModeAfterClick(openai_key, key, rawg_mode)
       /\ UNCHANGED <<recommendations, recsMode>>
  /\ UNCHANGED <<pfVars, cgVars, chatVars, cacheVars>>

ClickGetRecs == Click(FALSE)

\* candidates = openai_get_candidates(..., n=CANDIDATE_COUNT), then the loop
\* header: with no candidate at all the loop body never runs
GetCandidates ==
  /\ pc = "candidates"
  /\ \E resp \in CandidateReplies :
       LET r == openai_get_candidates(resp, CANDIDATE_COUNT)
       IN /\ calls' = Append(calls, "candidates")
          /\ IF r.raised
             THEN FailWith("fail_candidates") /\ UNCHANGED <<candidates, idx>>
             ELSE /\ candidates' = r.titles
                  /\ IF r.titles # <<>>
                     THEN idx' = 1 /\ pc' = "resolve" /\ Quiet
                     ELSE /\ idx' = 0
                          /\ IF EmptyFactual(factual)
                             THEN FailWith("fail_nomatch")
                             ELSE pc' = "select" /\ Quiet
  /\ UNCHANGED <<pfVars, cgVars, chatVars, cacheVars, rawg_mode, rawg_key, platforms,
                 factual, seen_ids, hits, answers, prevLoop, selParse,
                 lastSelected>>

\* what rawg_search_top(rawg_key, title) can do: a cached value is returned
\* as is; otherwise RAWG answers, or rawg_get raises (HTTP error, timeout)
SearchResults(title) ==
  IF searchCache[title].kind # "uncached"
  THEN {[raised |-> FALSE, top |-> searchCache[title]]}
  ELSE {[raised |-> FALSE, top |-> a] : a \in SearchAnswers}
       \cup {[raised |-> TRUE, top |-> Uncached]}

\* what rawg_game_detail(rawg_key, gid) can do
DetailResults(gid) ==
  IF detailCache[gid].kind # "uncached"
  THEN {[raised |-> FALSE, detail |-> detailCache[gid]]}
  ELSE {[raised |-> FALSE, detail |-> d] : d \in DetailAnswers(gid)}
       \cup {[raised |-> TRUE, detail |-> NoDetail]}

\* end of one iteration of the loop body: continue / break / loop exhausted,
\* then the check of line 734
EndIteration(newFactual, stop) ==
  /\ factual' = newFactual
  /\ IF stop \/ idx = Len(candidates)
     THEN /\ idx' = idx
          /\ IF EmptyFactual(newFactual)
             THEN FailWith("fail_nomatch")
             ELSE pc' = "select" /\ Quiet
     ELSE idx' = idx + 1 /\ pc' = "resolve" /\ Quiet

\* one iteration of: for title in candidates (lines 702-732)
ResolveStep ==
  /\ pc = "resolve"
  /\ LET title == candidates[idx]
     IN \E sres \in SearchResults(title) :
          IF sres.raised
          THEN /\ calls' = Append(calls, "search")
               /\ FailWith("fail_catalog")
               /\ UNCHANGED <<cacheVars, idx, factual, seen_ids, hits, answers>>
          ELSE
            LET top == sres.top
                gid == top.id
            IN /\ searchCache' = [searchCache EXCEPT ![title] = top]
               /\ hits' = Append(hits, IF NoHit(top) THEN 0 ELSE gid)
               /\ IF NoHit(top) \/ AlreadySeen(gid, seen_ids)
                  THEN /\ calls' = Append(calls, "search")
                       /\ answers' = Append(answers, [title |-> title, top |-> top,
                                                      detail |-> NoDetail])
                       /\ EndIteration(factual, FALSE)
                       /\ UNCHANGED <<detailCache, seen_ids>>
                  ELSE
                    /\ calls' = calls \o <<"search", "detail">>
                    /\ \E dres \in DetailResults(gid) :
                         IF dres.raised
                         THEN /\ FailWith("fail_catalog")
                              /\ UNCHANGED <<detailCache, idx, factual, seen_ids,
                                             answers>>
                         ELSE
                           LET detail == dres.detail
                               plats == game_platforms(detail)
                           IN /\ detailCache' = [detailCache EXCEPT ![gid] = detail]
                              /\ answers' = Append(answers, [title |-> title, top |-> top,
                                                             detail |-> detail])
                              /\ IF ~platform_filter_pass(platforms, plats)
                                 THEN /\ EndIteration(factual, FALSE)
                                      /\ UNCHANGED seen_ids
                                 ELSE
                                   LET grown == Append(factual, MakeFact(gid, title, top, detail))
                                   IN /\ seen_ids' = AddSeen(seen_ids, gid)
                                      /\ EndIteration(grown, LimitReached(grown))
  /\ UNCHANGED <<pfVars, cgVars, chatVars, rawg_mode, rawg_key, platforms, candidates,
                 prevLoop, selParse, lastSelected>>

\* lines 467-470 and 748-764: validate the parsed reply, merge, store
FinishGrounded(obj) ==
  IF ShapeRaises(obj)
  THEN FailWith("fail_select") /\ UNCHANGED lastSelected
  ELSE /\ recommendations' =
            [isNone |-> FALSE,
             selected |-> MergeSelections(factual, SelectedOf(obj)),
             summary |-> "summary", note |-> "price_disclaimer"]
       /\ recsMode' = "grounded"
       /\ lastSelected' = SelectedOf(obj)
       /\ outcome' = "ok" /\ pc' = "idle" /\ UNCHANGED errCount

\* lines 538-543 and 777-781
FinishFallback(obj) ==
  IF ShapeRaises(obj)
  THEN FailWith("fail_select") /\ UNCHANGED lastSelected
  ELSE /\ recommendations' =
            [isNone |-> FALSE,
             selected |-> TruncateSelected(SelectedOf(obj), FALLBACK_MAX_RECS),
             summary |-> "summary", note |-> "accuracy_note"]
       /\ recsMode' = "fallback"
       /\ lastSelected' = SelectedOf(obj)
       /\ outcome' = "ok" /\ pc' = "idle" /\ UNCHANGED errCount

\* the validation and storing that follow the parse in the function called
Finish(label, obj) ==
  IF label \in {"select", "repair"} THEN FinishGrounded(obj)
                                    ELSE FinishFallback(obj)

\* first model call of a selection function and the try around the parse
FirstCall(label, repairPc, replies) ==
  \E resp \in replies :
    LET parsed == safe_json_loads(resp)
    IN /\ calls' = Append(calls, label)
       /\ selParse' = Append(selParse, ~parsed.raised)
       /\ IF NeedsRepair(parsed)
          THEN pc' = repairPc /\ Quiet /\ UNCHANGED lastSelected
          ELSE Finish(label, parsed.obj)

\* the repair call: its parse error is not caught
RepairCall(label, replies) ==
  \E resp \in replies :
    LET parsed == safe_json_loads(resp)
    IN /\ calls' = Append(calls, label)
       /\ selParse' = Append(selParse, ~parsed.raised)
       /\ IF parsed.raised
          THEN FailWith("fail_select") /\ UNCHANGED lastSelected
          ELSE Finish(label, parsed.obj)

selFrame == <<pfVars, cgVars, chatVars, cacheVars, rawg_mode, loopVars>>

\* openai_select_from_facts, first call (line 450)
SelectFirst ==
  /\ pc = "select"
  /\ FirstCall("select", "repair", GroundedReplies)
  /\ UNCHANGED selFrame

\* openai_select_from_facts, repair call (line 464)
SelectRepair ==
  /\ pc = "repair"
  /\ RepairCall("repair", GroundedReplies)
  /\ UNCHANGED selFrame

\* openai_select_fallback_no_rawg, first call (line 520)
FallbackFirst ==
  /\ pc = "fallback"
  /\ FirstCall("fallback", "fb_repair", FallbackReplies)
  /\ UNCHANGED selFrame

\* openai_select_fallback_no_rawg, repair call (line 535)
FallbackRepair ==
  /\ pc = "fb_repair"
  /\ RepairCall("fb_repair", FallbackReplies)
  /\ UNCHANGED selFrame

(***************************************************************************)
(* Spec: one click on a fresh session with cold caches, every catalog      *)
(* answer possible.                                                        *)
(***************************************************************************)
Init == pfIdle /\ cgIdle /\ flowIdle

FirstClick == outcome = "none" /\ ClickGetRecs

NextOnce ==
  \/ FirstClick
  \/ GetCandidates
  \/ ResolveStep
  \/ SelectFirst
  \/ SelectRepair
  \/ FallbackFirst
  \/ FallbackRepair

Spec == Init /\ [][NextOnce]_vars

(***************************************************************************)
(* SpecSession: any number of clicks in one session.  st.cache_data is     *)
(* shared by all sessions of the process, so a new session can find the    *)
(* caches filled by earlier ones; the session starts with one of a few     *)
(* such caches.                                                            *)
(***************************************************************************)
Hit(g) == CHOOSE a \in SearchAnswers : a.kind = "hit" /\ a.id = g
Miss == CHOOSE a \in SearchAnswers : a.kind = "none"
DetailWith(g, pl) == CHOOSE d \in DetailAnswers(g) : d.platforms = pl

SessionCaches ==
  {[search |-> (<<"A">> :> Hit(1)) @@ (<<"B">> :> Hit(2)) @@ (<<"C">> :> Miss),
    detail |-> [g \in CatalogIds |->
                  IF g = 1 THEN DetailWith(g, <<T_NintendoSwitch, <<>>, T_NintendoSwitch, T_PC>>)
                  ELSE DetailWith(g, <<T_PC>>)]],
   [search |-> (<<"A">> :> Hit(1)) @@ (<<"B">> :> Hit(1)) @@ (<<"C">> :> Uncached),
    detail |-> [g \in CatalogIds |->
                  IF g = 1 THEN DetailWith(g, <<P_Nintendo3DS>>) ELSE NoDetail]]}

InitSession ==
  /\ pfIdle /\ cgIdle /\ sessionFresh
  /\ \E c \in SessionCaches : searchCache = c.search /\ detailCache = c.detail

Next ==
  \/ ClickGetRecs
  \/ GetCandidates
  \/ ResolveStep
  \/ SelectFirst
  \/ SelectRepair
  \/ FallbackFirst
  \/ FallbackRepair

SpecSession == InitSession /\ [][Next]_vars

(***************************************************************************)
(* SpecRepeat: SpecSession with the history of one earlier loop kept, to   *)
(* compare two runs of the fact-resolution loop.                           *)
(***************************************************************************)
ClickAgain == Click(TRUE)

NextRepeat ==
  \/ ClickAgain
  \/ GetCandidates
  \/ ResolveStep
  \/ SelectFirst
  \/ SelectRepair
  \/ FallbackFirst
  \/ FallbackRepair

SpecRepeat == InitSession /\ [][NextRepeat]_vars

(***************************************************************************)
(* The chat corner (lines 921-948).  A submission is handled in one script  *)
(* run: the user message is appended first, the assistant message after    *)
(* the model has answered or failed.                                       *)
(***************************************************************************)
\* what the user can submit: st.chat_input returns a non-empty text
ChatTexts == {<<"q">>, <<" ">>}

\* resp.output_text of the chat call: None or empty, or some text
ChatOutputs == {<<>>, <<" ">>, <<" ","o","k"," ">>}

\* what openai_chat can do: return the stripped text, or raise
ChatResults ==
  {[raised |-> FALSE, text |-> Strip(o)] : o \in ChatOutputs}
  \cup {[raised |-> TRUE, text |-> <<>>]}

\* the fixed answer of line 927
NoKeyText == <<"n","o","k","e","y">>

\* err = f"..: {e}"
ErrorText == <<"e","r","r">>

\* st.session_state.messages.append({"role": ..., "content": ...})
AppendMessage(msgs, role, content) ==
  Append(msgs, [role |-> role, content |-> content])

\* a plausible slip: the handler only shows the error
AfterChatError_drop(msgs, err) == msgs

\* except Exception as e: the error text becomes the assistant message
AfterChatError(msgs, err) == AppendMessage(msgs, "assistant", err)

\* if user_text: append the user message; without a key, answer at once
ChatSubmit ==
  /\ pc = "idle" /\ ~chatPending
  /\ Len(messages) + 2 <= MaxMessages
  /\ \E user_text \in ChatTexts, openai_key \in BOOLEAN :
       LET withUser == AppendMessage(messages, "user", user_text)
       IN IF ~openai_key
          THEN /\ messages' = AppendMessage(withUser, "assistant", NoKeyText)
               /\ chatPending' = FALSE
          ELSE /\ messages' = withUser
               /\ chatPending' = TRUE
  /\ UNCHANGED <<pfVars, cgVars, flowVars>>

\* openai_chat has returned or raised (lines 932-948)
ChatAnswer ==
  /\ chatPending
  /\ \E res \in ChatResults :
       messages' = IF res.raised
                   THEN AfterChatError(messages, ErrorText)
                   ELSE AppendMessage(messages, "assistant", res.text)
  /\ chatPending' = FALSE
  /\ UNCHANGED <<pfVars, cgVars, flowVars>>

InitChat == pfIdle /\ cgIdle /\ flowIdle

NextChat == ChatSubmit \/ ChatAnswer

SpecChat == InitChat /\ [][NextChat]_vars

(***************************************************************************)
(* Properties                                                              *)
(***************************************************************************)
PairwiseDistinctCI(titles) ==
  \A i, j \in DOMAIN titles : i # j => Lower(titles[i]) # Lower(titles[j])

\* C1: whenever openai_get_candidates returns (does not raise) for a required
\* count n, it returns exactly n titles, pairwise distinct ignoring case.
C1_ExactlyNDistinctOrFail ==
  cgOut.status = "returned" =>
    Len(cgOut.titles) = cgN /\ PairwiseDistinctCI(cgOut.titles)

\* the candidate tried at position i resolved to a catalog entry that passes
\* the platform filter of this run
Eligible(i) ==
  /\ hits[i] # 0
  /\ detailCache[hits[i]].kind # "uncached"
  /\ platform_filter_pass(platforms, game_platforms(detailCache[hits[i]]))

\* position of the first candidate that resolved to catalog id g
FirstIdx(g) == CHOOSE i \in DOMAIN hits : hits[i] = g /\ \A j \in 1..(i - 1) : hits[j] # g

\* C2: at every point of the fact-resolution loop and after it, factual has
\* at most RAWG_MATCH_LIMIT entries, no two with the same catalog id, and its
\* entries stand in the order of the candidates that first resolved to them;
\* every candidate tried so far that resolves and passes the filter is in it.
C2_FactSetBoundedDistinctOrdered ==
  /\ Len(factual) <= RAWG_MATCH_LIMIT
  /\ \A k, l \in DOMAIN factual : k # l => factual[k].id # factual[l].id
  /\ \A k \in DOMAIN factual : factual[k].id.n \in Range(hits)
  /\ \A k, l \in DOMAIN factual :
       k < l => FirstIdx(factual[k].id.n) < FirstIdx(factual[l].id.n)
  /\ outcome # "fail_catalog" =>
       \A i \in DOMAIN hits : Eligible(i) => hits[i] \in FactIds(factual)

\* the cap is reached by the last of three candidates, the second of which
\* resolved to the catalog entry of the first
C2_Witness ==
  /\ pc = "select"
  /\ Len(factual) = RAWG_MATCH_LIMIT
  /\ \E i, j \in DOMAIN hits : i < j /\ hits[i] = hits[j] /\ hits[i] # 0
  /\ \E i \in DOMAIN hits : hits[i] = 0 \/ ~Eligible(i) \/ FirstIdx(hits[i]) # i

\* the id of a "selected" element names a FactSet record: an integer (or its
\* decimal string) equal to the id of a record of factual
NamesFact(e) ==
  /\ IsDict(e) /\ "id" \in DOMAIN e
  /\ e.id.kind \in {"int", "numstr"}
  /\ e.id.n \in FactIds(factual)

NamingFact(items) == {k \in DOMAIN items : NamesFact(items[k])}

\* C3: after a grounded run that stored a result, the stored recommendations
\* come from exactly the selected elements whose id is in the FactSet, and
\* each stored recommendation carries an id of the FactSet.
C3_OnlyFactSetIdsStored ==
  (outcome = "ok" /\ rawg_mode) =>
    /\ Len(recommendations.selected) = Cardinality(NamingFact(lastSelected))
    /\ \A k \in DOMAIN recommendations.selected :
         NamesFact(recommendations.selected[k])

SelectionCalls == {"select", "repair", "fallback", "fb_repair"}

Count(seq, S) == Cardinality({i \in DOMAIN seq : seq[i] \in S})

\* C4: a selection stage makes at most two model calls; the second is made
\* only after the first reply failed to parse; when the second reply fails to
\* parse too the run fails with one error message and nothing more is called.
C4_RepairBound ==
  /\ Count(calls, SelectionCalls) = Len(selParse)
  /\ Len(selParse) <= 2
  /\ Count(calls, {"select", "fallback"}) <= 1
  /\ Count(calls, {"repair", "fb_repair"}) <= 1
  /\ Len(selParse) = 2 =>
       /\ selParse[1] = FALSE
       /\ calls[Len(calls)] \in {"repair", "fb_repair"}
  /\ selParse = <<FALSE>> => pc \in {"repair", "fb_repair"}
  /\ selParse = <<FALSE, FALSE>> =>
       outcome = "fail_select" /\ errCount = 1 /\ pc = "idle"

C4_Witness ==
  /\ selParse = <<FALSE, FALSE>>
  /\ "repair" \in Range(calls)
  /\ outcome = "fail_select"

\* C5: the selection call is never made, nor pending, with an empty FactSet;
\* a grounded run whose loop ends with an empty FactSet fails with the
\* no-matches error.
C5_EmptyFactSetStops ==
  /\ (pc \in {"select", "repair"} \/ Count(calls, {"select", "repair"}) > 0)
       => factual # <<>>
  /\ (/\ "candidates" \in Range(calls)
      /\ outcome \notin {"running", "fail_candidates", "fail_catalog"}
      /\ factual = <<>>)
       => /\ outcome = "fail_nomatch"
          /\ recommendations.isNone
          /\ Count(calls, SelectionCalls) = 0

\* every candidate resolved, none was added (platform mismatch)
C5_Witness ==
  /\ outcome = "fail_nomatch"
  /\ Len(hits) = CANDIDATE_COUNT
  /\ \A i \in DOMAIN hits : hits[i] # 0
  /\ factual = <<>>

IsPrefix(a, b) == Len(a) <= Len(b) /\ a = SubSeq(b, 1, Len(a))

\* C6: with an empty or blank RAWG key a run calls only the fallback
\* selector, and what it stores is the reply's "selected" cut to at most
\* FALLBACK_MAX_RECS elements.
C6_FallbackOnlyAndCapped ==
  (outcome \notin {"none", "nokey"} /\ Strip(rawg_key) = <<>>) =>
    /\ ~rawg_mode
    /\ Count(calls, {"candidates", "search", "detail", "select", "repair"}) = 0
    /\ outcome = "ok" =>
         /\ ~recommendations.isNone
         /\ Len(recommendations.selected) <= FALLBACK_MAX_RECS
         /\ IsPrefix(recommendations.selected, lastSelected)
         /\ Len(lastSelected) >= FALLBACK_MAX_RECS =>
              Len(recommendations.selected) = FALLBACK_MAX_RECS

C6_Witness ==
  /\ outcome = "ok"
  /\ rawg_key = <<" ">>
  /\ Len(lastSelected) > FALLBACK_MAX_RECS
  /\ Len(recommendations.selected) = FALLBACK_MAX_RECS

\* C7: a failing catalog search or detail fetch for one candidate never
\* aborts the run.
C7_CatalogErrorNeverAborts == outcome # "fail_catalog"

\* token occurs in text, letter case ignored, compared character by character
OccursCI(token, text) ==
  \E off \in 0..(Len(text) - Len(token)) :
    \A k \in 1..Len(token) : LowerChar(text[off + k]) = LowerChar(token[k])

\* C8: platform_filter_pass is true for an empty selection; otherwise it is
\* true exactly when a token mapped from one of the selected labels occurs,
\* ignoring case, in the joined catalog platform names; it is true for
\* (Mobile, Android) and false for (PS, PC and Nintendo Switch).
C8_PlatformMatcher ==
  pfResult # "none" =>
    /\ (pfResult = "pass") <=>
         \/ pfUser = <<>>
         \/ \E i \in DOMAIN pfUser :
              \E token \in Range(map_platform_choice_to_rawg_tokens(pfUser[i])) :
                OccursCI(token, Join(<<" ","|"," ">>, pfPlats))
    /\ pfUser = <<>> => pfResult = "pass"
    /\ (pfUser = <<"Mobile">> /\ pfPlats = <<T_Android>>) => pfResult = "pass"
    /\ (pfUser = <<"PS">> /\ pfPlats = <<T_PC, T_NintendoSwitch>>) => pfResult = "fail"

\* a match that needs the case to be ignored
C8_Witness ==
  /\ pfUser = <<"PS", "Mobile">>
  /\ pfPlats = <<T_PC, P_android>>
  /\ pfResult = "pass"

\* the catalog entry lists the Nintendo Switch
ListsSwitch(fact) ==
  \E k \in DOMAIN fact.platforms : Lower(fact.platforms[k]) = Lower(T_NintendoSwitch)

\* C9: with the platform selection Switch, every entry of the FactSet lists
\* the Switch among its platforms.
C9_FactSetOnlySelectedPlatform ==
  platforms = <<"Switch">> => \A k \in DOMAIN factual : ListsSwitch(factual[k])

Failures == {"fail_candidates", "fail_catalog", "fail_nomatch", "fail_select"}

\* C10: when a run has failed, whatever the stage, the stored recommendations
\* are None, exactly one error message was shown, the flow is back at rest,
\* and the call that failed (or, for zero matches, the last catalog call) is
\* the last call of the run: no later stage has run.
C10_FailureKeepsNothing ==
  outcome \in Failures =>
    /\ recommendations.isNone
    /\ errCount = 1
    /\ pc = "idle"
    /\ outcome = "fail_candidates" => calls = <<"candidates">>
    /\ outcome = "fail_catalog" =>
         /\ calls[Len(calls)] \in {"search", "detail"}
         /\ Count(calls, SelectionCalls) = 0
    /\ outcome = "fail_nomatch" => Count(calls, SelectionCalls) = 0
    /\ outcome = "fail_select" =>
         /\ calls[Len(calls)] \in SelectionCalls
         /\ lastSelected = <<>>

\* a grounded run that had collected facts fails in the selection stage
C10_Witness ==
  /\ outcome = "fail_select"
  /\ rawg_mode
  /\ factual # <<>>
  /\ recommendations.isNone

\* two recorded runs of the loop were given the same catalog answers: the
\* same search result for a title, the same detail for a game id
SameAnswers(a, b) ==
  \A i \in DOMAIN a, j \in DOMAIN b :
    /\ a[i].title = b[j].title => a[i].top = b[j].top
    /\ (a[i].top = b[j].top /\ a[i].detail # NoDetail /\ b[j].detail # NoDetail)
         => a[i].detail = b[j].detail

\* C11: two runs of the fact-resolution loop in one session with the same
\* candidate list, the same platform selection and the same catalog answers
\* build the same FactSet: the same records, so the same identifiers in the
\* same order.
C11_ResolverIdempotent ==
  (/\ LoopCompleted /\ prevLoop.done
   /\ prevLoop.candidates = candidates
   /\ prevLoop.platforms = platforms
   /\ SameAnswers(prevLoop.answers, answers))
  => prevLoop.factual = factual

\* a second run over the same candidates that fills the FactSet to its limit
\* from answers the first run left in the caches, duplicates skipped
C11_Witness ==
  /\ LoopCompleted /\ prevLoop.done
  /\ prevLoop.candidates = candidates /\ prevLoop.platforms = platforms
  /\ SameAnswers(prevLoop.answers, answers)
  /\ Len(candidates) = CANDIDATE_COUNT
  /\ Len(factual) = RAWG_MATCH_LIMIT
  /\ prevLoop.factual = factual

\* C12: once factual holds RAWG_MATCH_LIMIT records the loop is over: the
\* candidate that completed the FactSet is the last one tried, and the run
\* has made one search per candidate up to it and none for a later one, and
\* no detail fetch beyond those candidates either.
C12_StopsAtLimit ==
  Len(factual) >= RAWG_MATCH_LIMIT =>
    /\ pc # "resolve"
    /\ Len(hits) = idx
    /\ hits[idx] = factual[RAWG_MATCH_LIMIT].id.n
    /\ Count(calls, {"search"}) = idx
    /\ Count(calls, {"detail"}) <= idx
    /\ Len(answers) = idx

\* a finished grounded run whose FactSet was completed before the last
\* candidate: that candidate was never looked up
C12_Witness ==
  /\ Len(factual) = RAWG_MATCH_LIMIT
  /\ idx < Len(candidates)
  /\ outcome = "ok"
  /\ Count(calls, {"search"}) = idx

\* the keys of a FactSet record (lines 719-728)
CatalogFields ==
  {"id", "name", "released", "genres", "platforms", "metacritic", "rating",
   "background_image"}

\* C13: after a grounded run that succeeded, every stored recommendation
\* agrees with some record of the FactSet on all eight catalog fields, the
\* identifier included: nothing the model's entry carries has replaced a
\* catalog fact.
C13_CatalogFieldsKept ==
  (outcome = "ok" /\ RawgEnabled(rawg_key)) =>
    \A k \in DOMAIN recommendations.selected :
      \E i \in DOMAIN factual :
        \A f \in CatalogFields :
          recommendations.selected[k][f] = factual[i][f]

\* C14: whenever the flow is at rest, which is when the page is rendered,
\* and recommendations is not None, rawg_mode is TRUE exactly if the run that
\* stored those recommendations was a grounded one.
C14_ModeMatchesRecommendations ==
  (pc = "idle" /\ ~recommendations.isNone) =>
    /\ recsMode \in {"grounded", "fallback"}
    /\ rawg_mode = (recsMode = "grounded")

\* fallback recommendations on display after a later click that had a RAWG
\* key but no OpenAI key
C14_Witness ==
  /\ pc = "idle" /\ outcome = "nokey"
  /\ RawgEnabled(rawg_key)
  /\ ~recommendations.isNone
  /\ recsMode = "fallback" /\ ~rawg_mode

\* the transcript starts with the initial message and then alternates
Alternates ==
  /\ Len(messages) >= 1 /\ messages[1] = InitialMessage
  /\ \A i \in 2..Len(messages) :
       messages[i].role = IF i % 2 = 0 THEN "user" ELSE "assistant"
  /\ chatPending <=> (Len(messages) % 2 = 0)

\* a step keeps every message and adds at most one exchange
Grows ==
  /\ IsPrefix(messages, messages')
  /\ Len(messages') - Len(messages) \in {0, 1, 2}

\* C15: the chat transcript always starts with the initial assistant message
\* and then alternates user, assistant, ending with a user message only
\* while the answer to it is awaited; a step never removes or changes a
\* message, whether the key is missing, the model answers or the call raises.
C15_TranscriptAlternates == []Alternates /\ [][Grows]_vars

\* three submissions handled: one without key, one answered, one that raised
C15_Witness ==
  /\ Len(messages) = 7 /\ ~chatPending
  /\ \E i, j, k \in DOMAIN messages :
       /\ messages[i].content = NoKeyText
       /\ messages[j].content = ErrorText
       /\ messages[k].content = <<"o","k">>

====
